---------------------------- MODULE Spec2Model ----------------------------
(***************************************************************************)
(* A model of SceneRendererBJS (src/src/SceneRendererBJS.js): one renderer *)
(* bound to one tracker session, the three content attachers addModel,     *)
(* addVideo and addImage, the listeners they register on the event target, *)
(* and the tracker's events dispatched on that target.                     *)
(*                                                                         *)
(* Scene objects are records kept in sequences; an object's identity is    *)
(* its index.  Angles are counted in half turns (1 = pi), offsets in       *)
(* hundredths of a scene unit.                                             *)
(***************************************************************************)
EXTENDS Integers, Sequences, FiniteSets, TLC

\* ------------------------------------------------------------------ bounds

\* Calls of addModel / addVideo / addImage over one run.
MaxCalls == 2

\* Calls of start() over one run.
MaxStarts == 1

\* ------------------------------------------------------- program constants

DefaultModelScale == 15
DefaultPlaneScale == 1

\* ------------------------------------------------------------ input sets

\* The renderer's session identifier (constructor argument) and another
\* tracker session running on the same page.
Uuid == "u1"
Sessions == {"u1", "u2"}

Markers == {"m1", "m2"}

\* An absent (undefined) argument is the empty sequence, a given one <<v>>.
Undefined == <<>>

\* Flat pose payloads, keys "0".."15" of e.detail.matrixGL_RH (column major).
\* Z: half turn about z; X: half turn about x.
PoseZ == [k \in 0..15 |-> <<-1,0,0,0, 0,-1,0,0, 0,0,1,0, 5,0,-10,1>>[k + 1]]
\* X carries a uniform scale of 2 and a homogeneous weight of 2.
PoseX == [k \in 0..15 |-> <<2,0,0,0, 0,-2,0,0, 0,0,-2,0, 0,-6,-40,2>>[k + 1]]
Poses == {PoseZ, PoseX}

\* Payloads of the marker-dimensions event.
Dims == {[width |-> 800, height |-> 600, dpi |-> 300],
         [width |-> 600, height |-> 400, dpi |-> 150]}

\* Imported scene data: mesh ids and animation group names.
DataBlender == [meshes |-> <<"__root__", "Default Light">>,
                animationGroups |-> <<"All Animations">>]
DataMany == [meshes |-> <<"__root__">>, animationGroups |-> <<"Walk", "Run">>]
DataNoRoot == [meshes |-> <<"Cube">>, animationGroups |-> <<>>]
ImportData == {DataBlender, DataMany, DataNoRoot}

\* Arguments of the calls.
ModelArgs ==
    {[url |-> "a.glb", name |-> "m1", scale |-> Undefined,
      visibility |-> Undefined, process |-> Undefined],
     [url |-> "b.glb", name |-> "m2", scale |-> <<2>>,
      visibility |-> <<TRUE>>, process |-> <<"custom">>]}

VideoArgs ==
    {[src |-> [type |-> "string", v |-> "v.mp4"], name |-> "m1",
      scale |-> Undefined, visibility |-> Undefined],
     [src |-> [type |-> "element", v |-> "arvideo"], name |-> "m2",
      scale |-> <<2>>, visibility |-> <<TRUE>>]}

ImageArgs ==
    {[src |-> [type |-> "string", v |-> "i.png"], name |-> "m1",
      scale |-> Undefined, visibility |-> <<FALSE>>],
     [src |-> [type |-> "element", v |-> "img"], name |-> "m2",
      scale |-> <<2>>, visibility |-> <<TRUE>>]}

\* ------------------------------------------------------------ JS helpers

\* A parameter default: `x = d` in a destructured parameter list.
OrDefault(arg, d) == IF arg = Undefined THEN d ELSE arg[1]

\* String(x) as `+` applies it to an operand that may be undefined.
Str(arg) == IF arg = Undefined THEN "undefined" ELSE arg[1]

\* data.meshes.find(mesh => mesh.id == id): the first mesh with that id,
\* as <<mesh>>, or Undefined.
Find(meshes, id) ==
    LET hits == {i \in 1..Len(meshes) : meshes[i] = id}
    IN IF hits = {} THEN Undefined
       ELSE <<meshes[CHOOSE i \in hits : \A j \in hits : i <= j]>>

\* ------------------------------------------------------------ pose maths

\* _objectToMatrix: every key of the payload is copied to the array slot of
\* the same index, and Matrix.FromArray reads slots 0..15 of the array into
\* the matrix (held here as a sequence, slot k at position k + 1).
_objectToMatrix(obj) ==
    LET array == [key \in DOMAIN obj |-> obj[key]]
    IN [i \in 1..16 |-> array[i - 1]]

\* Math.sqrt on the perfect squares the payloads produce.
Sqrt(n) == CHOOSE r \in 0..n : r * r = n

\* Matrix.getRotationMatrix: the upper-left block with each column divided
\* by its length (the scale found by decompose; the y scale is negated for
\* a non-positive determinant), for affine matrices.
getRotationMatrix(m) ==
    LET det == m[16] * ( m[1] * (m[6] * m[11] - m[7] * m[10])
                       - m[5] * (m[2] * m[11] - m[3] * m[10])
                       + m[9] * (m[2] * m[7] - m[3] * m[6]))
        sx == Sqrt(m[1] * m[1] + m[2] * m[2] + m[3] * m[3])
        ay == Sqrt(m[5] * m[5] + m[6] * m[6] + m[7] * m[7])
        sy == IF det <= 0 THEN -ay ELSE ay
        sz == Sqrt(m[9] * m[9] + m[10] * m[10] + m[11] * m[11])
    IN IF sx = 0 \/ sy = 0 \/ sz = 0
       THEN <<1,0,0,0, 0,1,0,0, 0,0,1,0, 0,0,0,1>>
       ELSE <<m[1] \div sx, m[2] \div sx, m[3] \div sx, 0,
              m[5] \div sy, m[6] \div sy, m[7] \div sy, 0,
              m[9] \div sz, m[10] \div sz, m[11] \div sz, 0,
              0, 0, 0, 1>>

\* Quaternion.fromRotationMatrix: the branch on the trace and on the largest
\* diagonal term, in exact arithmetic.
fromRotationMatrix(m) ==
    LET m11 == m[1]  m12 == m[5]  m13 == m[9]
        m21 == m[2]  m22 == m[6]  m23 == m[10]
        m31 == m[3]  m32 == m[7]  m33 == m[11]
        trace == m11 + m22 + m33
    IN IF trace > 0
       THEN LET r == Sqrt(trace + 1)
            IN [w |-> r \div 2, x |-> (m32 - m23) \div (2 * r),
                y |-> (m13 - m31) \div (2 * r), z |-> (m21 - m12) \div (2 * r)]
       ELSE IF m11 > m22 /\ m11 > m33
       THEN LET s == 2 * Sqrt(1 + m11 - m22 - m33)
            IN [w |-> (m32 - m23) \div s, x |-> s \div 4,
                y |-> (m12 + m21) \div s, z |-> (m13 + m31) \div s]
       ELSE IF m22 > m33
       THEN LET s == 2 * Sqrt(1 + m22 - m11 - m33)
            IN [w |-> (m13 - m31) \div s, x |-> (m12 + m21) \div s,
                y |-> s \div 4, z |-> (m23 + m32) \div s]
       ELSE LET s == 2 * Sqrt(1 + m33 - m11 - m22)
            IN [w |-> (m21 - m12) \div s, x |-> (m13 + m31) \div s,
                y |-> (m23 + m32) \div s, z |-> s \div 4]

\* Math.atan2(0, c) in half turns.
Atan2Zero(c) == IF c < 0 THEN 1 ELSE 0

\* Quaternion.toEulerAngles away from the poles (the sine arguments are 0
\* for the half-turn rotations of Poses), in half turns.
toEulerAngles(q) ==
    [x |-> 0,
     y |-> Atan2Zero(q.z * q.z - q.x * q.x - q.y * q.y + q.w * q.w),
     z |-> Atan2Zero(q.y * q.y + q.w * q.w - q.z * q.z - q.x * q.x)]

\* Vector3.TransformCoordinates(Vector3.Zero(), matrix): the translation
\* column divided by the homogeneous weight.
TransformOrigin(m) ==
    [x |-> m[13] \div m[16], y |-> m[14] \div m[16], z |-> m[15] \div m[16]]

\* The rotation and position the pose-update listener stores on the root.
PoseRotation(detail) ==
    toEulerAngles(fromRotationMatrix(getRotationMatrix(_objectToMatrix(detail))))

PosePosition(detail) == TransformOrigin(_objectToMatrix(detail))

\* Both, for every payload of Poses (worked out once, not at every event).
PoseOf ==
    [detail \in Poses |-> [rotation |-> PoseRotation(detail),
                           position |-> PosePosition(detail)]]

\* ((d / dpi) * 2.54 * 10) / 2 in hundredths, rounded to the nearest: the
\* quotient of a = d * 254 * 10 by b = dpi * 2, as (2a + b) \div 2b.
Offset(d, dpi) == (2 * d * 254 * 10 + 2 * dpi) \div (2 * dpi * 2)

\* ------------------------------------------------------------------ state

VARIABLES
    starts,     \* render callbacks registered by start()
    roots,      \* anchor meshes, in creation order
    contents,   \* content meshes (model mesh, video plane, image plane)
    listeners,  \* listeners on this.target, in registration order
    materials,  \* this.scene.materials, in creation order
    textures,   \* the textures made by addVideo and addImage
    promises,   \* the promise of every add* call, in call order
    hist,       \* history, per root: its marker, and the kind of the last
                \* pose-update or tracking-lost event and the payload of
                \* the last pose update dispatched for this session and that
                \* marker since the root was made
    seen,       \* history, per content: its marker, and the payload of the
                \* last marker-dimensions event dispatched for this session
                \* and that marker since the content was made
    missed      \* history, per call: was a marker-dimensions event for its
                \* marker dispatched while its import was outstanding

vars == <<starts, roots, contents, materials, textures, listeners, promises,
          hist, seen, missed>>

scene == <<roots, contents>>

Init ==
    /\ starts = 0
    /\ roots = <<>>
    /\ contents = <<>>
    /\ materials = <<>>
    /\ textures = <<>>
    /\ listeners = <<>>
    /\ promises = <<>>
    /\ hist = <<>>
    /\ seen = <<>>
    /\ missed = <<>>

\* ----------------------------------------------------------- render loop

\* start(): registers the render callback on the engine.
start ==
    /\ starts < MaxStarts
    /\ starts' = starts + 1
    /\ UNCHANGED <<roots, contents, materials, textures, listeners, promises,
                   hist, seen, missed>>

\* One frame of the loop: scene.render() draws and changes nothing stored.
Render ==
    /\ starts > 0
    /\ UNCHANGED vars

\* ------------------------------------------------------------- listeners

EventName(type, uuid, name) == type \o "-" \o uuid \o "-" \o name

\* new Mesh(name + ' Root', this.scene): enabled, at the origin, unrotated.
NewRoot(name) ==
    [name |-> name \o " Root", enabled |-> TRUE,
     rotation |-> [x |-> 0, y |-> 0, z |-> 0],
     position |-> [x |-> 0, y |-> 0, z |-> 0]]

\* Fault seeded to test C3: a pose-update listener that moves the root but
\* does not enable it.
OnMatrixNoEnable(root, detail) ==
    [root EXCEPT !.rotation = PoseOf[detail].rotation,
                 !.position = PoseOf[detail].position]

\* The listener on getMatrixGL_RH-<uuid>-<name>.
OnMatrix(root, detail) ==
    [root EXCEPT !.enabled = TRUE,
                 !.rotation = PoseOf[detail].rotation,
                 !.position = PoseOf[detail].position]

\* Fault seeded to test C2: a tracking-lost listener that also sends the
\* root back to the origin.
OnTrackingLostReset(root, visibility) ==
    [root EXCEPT !.enabled = visibility,
                 !.position = [x |-> 0, y |-> 0, z |-> 0]]

\* The listener on nftTrackingLost-<uuid>-<name>: root.setEnabled(!!visibility).
OnTrackingLost(root, visibility) ==
    [root EXCEPT !.enabled = visibility]

\* Fault seeded to test C1: listeners are added only for the first root of
\* a marker name.
_addRootOnce(r, name, visibility) ==
    IF \E k \in DOMAIN listeners :
          listeners[k].event = EventName("getMatrixGL_RH", Uuid, name)
    THEN <<>>
    ELSE << [event |-> EventName("getMatrixGL_RH", Uuid, name),
             handler |-> "matrix", target |-> r, visibility |-> visibility],
            [event |-> EventName("nftTrackingLost", Uuid, name),
             handler |-> "lost", target |-> r, visibility |-> visibility] >>

\* _addRoot: the two listeners it adds for root number r.
_addRoot(r, name, visibility) ==
    << [event |-> EventName("getMatrixGL_RH", Uuid, name), handler |-> "matrix",
        target |-> r, visibility |-> visibility],
       [event |-> EventName("nftTrackingLost", Uuid, name), handler |-> "lost",
        target |-> r, visibility |-> visibility] >>

\* The getNFTData listeners of the three attachers.
ModelNFTData(c, msg) ==
    [c EXCEPT !.position = [y |-> Offset(msg.height, msg.dpi),
                            x |-> Offset(msg.width, msg.dpi)]]

VideoNFTData(c, msg) ==
    [c EXCEPT !.position = [y |-> Offset(msg.height, msg.dpi),
                            x |-> Offset(msg.width, msg.dpi)]]

ImageNFTData(c, msg) ==
    [c EXCEPT !.position = [y |-> Offset(msg.height, msg.dpi),
                            x |-> Offset(msg.height, msg.dpi)]]

NFTDataListener(c, name, kind) ==
    [event |-> EventName("getNFTData", Uuid, name), handler |-> kind,
     target |-> c, visibility |-> FALSE]

\* One listener run on one event.
Handle(l, detail, sc) ==
    CASE l.handler = "matrix" ->
           <<[sc[1] EXCEPT ![l.target] = OnMatrix(@, detail)], sc[2]>>
      [] l.handler = "lost" ->
           <<[sc[1] EXCEPT ![l.target] = OnTrackingLost(@, l.visibility)], sc[2]>>
      [] l.handler = "model" ->
           <<sc[1], [sc[2] EXCEPT ![l.target] = ModelNFTData(@, detail)]>>
      [] l.handler = "video" ->
           <<sc[1], [sc[2] EXCEPT ![l.target] = VideoNFTData(@, detail)]>>
      [] l.handler = "image" ->
           <<sc[1], [sc[2] EXCEPT ![l.target] = ImageNFTData(@, detail)]>>

\* dispatchEvent: the listeners registered for the event's name run in
\* registration order.
RECURSIVE Deliver(_, _, _, _)
Deliver(ls, event, detail, sc) ==
    IF ls = <<>> THEN sc
    ELSE Deliver(Tail(ls), event, detail,
                 IF Head(ls).event = event THEN Handle(Head(ls), detail, sc)
                 ELSE sc)

\* ------------------------------------------------------------- attachers

\* typeof x, for x undefined, a string or an element.
TypeOf(x) ==
    IF x = Undefined THEN "undefined"
    ELSE IF x[1].type = "string" THEN "string" ELSE "object"

\* A content mesh as the attachers leave it.
Content(kind, name, parent, scale, rotX, material, result) ==
    [kind |-> kind, name |-> name, id |-> IF kind = "model" THEN result.id ELSE name,
     parent |-> parent, scaling |-> scale, rotationX |-> rotX,
     position |-> [x |-> 0, y |-> 0], material |-> material,
     animation |-> result.animation, animations |-> result.animations,
     lightDisposed |-> result.lightDisposed, stopped |-> result.stopped]

NoModel ==
    [threw |-> FALSE, name |-> "", id |-> "", animation |-> Undefined,
     animations |-> Undefined, lightDisposed |-> FALSE, stopped |-> 0]

\* Fault seeded to test C7: a default process function that falls back to
\* the first mesh when none has the id __root__.
_processModelDataLenient(data, name) ==
    [NoModel EXCEPT !.name = Str(name) \o " Mesh", !.id = Str(name) \o " Mesh",
                    !.animations = <<data.animationGroups>>,
                    !.stopped = Len(data.animationGroups)]

\* _processModelData(data, name); name is Undefined when the caller passes
\* no second argument.
_processModelData(data, name) ==
    LET mesh == Find(data.meshes, "__root__")
        light == Find(data.meshes, "Default Light")
        groups == data.animationGroups
        primary == /\ groups # <<>>
                   /\ groups[1] \in {"All Animations", "Animation"}
    IN IF mesh = Undefined
       THEN [NoModel EXCEPT !.threw = TRUE]
       ELSE [threw |-> FALSE,
             name |-> Str(name) \o " Mesh",
             id |-> Str(name) \o " Mesh",
             animation |-> IF primary THEN <<Str(name) \o " Animation">>
                           ELSE Undefined,
             animations |-> IF primary THEN Undefined ELSE <<groups>>,
             lightDisposed |-> light # Undefined,
             stopped |-> Len(groups)]

\* A caller's process function: takes the first mesh as it is and hands all
\* animation groups back.
CustomProcess(data, name) ==
    [NoModel EXCEPT !.name = data.meshes[1], !.id = data.meshes[1],
                    !.animations = <<data.animationGroups>>]

\* Lines 103-105: process = process || this._processModelData; process(data).
\* The marker name is at hand and is not passed on: the function called
\* gets data alone.
CallProcess(process, data, name) ==
    IF process = Undefined THEN _processModelData(data, Undefined)
    ELSE CustomProcess(data, Undefined)

Pending(i) == promises[i].state = "pending"

\* Fault seeded to test C10: an addModel that registers its listeners
\* before the import, for the root and content it is going to make.
addModelEager(args) ==
    /\ Len(promises) < MaxCalls
    /\ promises' = Append(promises,
                      [op |-> "addModel", name |-> args.name, args |-> <<args>>,
                       state |-> "pending", value |-> 0, reason |-> "",
                       data |-> Undefined])
    /\ listeners' = listeners
                      \o <<NFTDataListener(Len(contents) + 1, args.name, "model")>>
                      \o _addRoot(Len(roots) + 1, args.name,
                                  OrDefault(args.visibility, FALSE))
    /\ missed' = Append(missed, FALSE)
    /\ UNCHANGED <<starts, roots, contents, materials, textures, hist, seen>>

\* addModel up to its await: the import is started and the promise returned.
addModel(args) ==
    /\ Len(promises) < MaxCalls
    /\ promises' = Append(promises,
                      [op |-> "addModel", name |-> args.name, args |-> <<args>>,
                       state |-> "pending", value |-> 0, reason |-> "",
                       data |-> Undefined])
    /\ missed' = Append(missed, FALSE)
    /\ UNCHANGED <<starts, roots, contents, materials, textures, listeners,
                   hist, seen>>

\* Fault seeded to test C5: an import failure that is swallowed, the promise
\* being fulfilled with nothing.
ImportSwallowed(i) ==
    /\ Pending(i)
    /\ promises' = [promises EXCEPT ![i].state = "fulfilled",
                                    ![i].reason = "ImportError"]
    /\ UNCHANGED <<starts, roots, contents, materials, textures, listeners,
                   hist, seen, missed>>

\* The import fails: the await throws and the promise is rejected.
ImportRejected(i) ==
    /\ Pending(i)
    /\ promises' = [promises EXCEPT ![i].state = "rejected",
                                    ![i].reason = "ImportError"]
    /\ UNCHANGED <<starts, roots, contents, materials, textures, listeners,
                   hist, seen, missed>>

\* The import resolves with data and addModel runs to its end (lines
\* 103-123): process(data) throws on a missing root mesh and the promise is
\* rejected; otherwise the root, the content and the listeners are made.
ImportResolved(i, data) ==
    /\ Pending(i)
    /\ LET args == promises[i].args[1]
           model == CallProcess(args.process, data, <<args.name>>)
           r == Len(roots) + 1
           c == Len(contents) + 1
           scale == OrDefault(args.scale, DefaultModelScale)
           visibility == OrDefault(args.visibility, FALSE)
       IN IF model.threw
          THEN /\ promises' = [promises EXCEPT ![i].state = "rejected",
                                               ![i].reason = "TypeError",
                                               ![i].data = <<data>>]
               /\ UNCHANGED <<roots, contents, materials, listeners, hist, seen>>
          ELSE /\ roots' = Append(roots, NewRoot(args.name))
               /\ materials' = [m \in DOMAIN materials |->
                      [materials[m] EXCEPT !.useLogarithmicDepth = TRUE]]
               /\ contents' = Append(contents,
                      Content("model", model.name, r, scale, 0,
                              [class |-> "imported", ref |-> 0], model))
               /\ listeners' = listeners
                                 \o <<NFTDataListener(c, args.name, "model")>>
                                 \o _addRoot(r, args.name, visibility)
               /\ promises' = [promises EXCEPT ![i].state = "fulfilled",
                                               ![i].value = c,
                                               ![i].data = <<data>>]
               /\ hist' = Append(hist, [marker |-> args.name, last |-> "none",
                                            pose |-> Undefined])
               /\ seen' = Append(seen, [marker |-> args.name, msg |-> Undefined])
    /\ UNCHANGED <<starts, textures, missed>>

\* new StandardMaterial(name, this.scene).
NewMaterial(name) ==
    [class |-> "StandardMaterial", name |-> name, diffuseColor |-> "default",
     emissiveTexture |-> 0, useLogarithmicDepth |-> FALSE]

\* The plane and material of addVideo, lines 167-179, around texture number t.
VideoSurface(name, r, t, scale) ==
    [plane |-> Content("video", name \o " Plane", r, scale, 1,
                       [class |-> "StandardMaterial", ref |-> Len(materials) + 1],
                       NoModel),
     material |-> [NewMaterial("Video Material - " \o name)
                     EXCEPT !.diffuseColor = "Black", !.emissiveTexture = t]]

\* The plane and material of addImage, lines 204-222: plane.material is
\* assigned the texture.
ImageSurface(name, r, t, scale) ==
    [plane |-> Content("image", name \o " Plane", r, scale, 1,
                       [class |-> "Texture", ref |-> t], NoModel),
     material |-> [NewMaterial(name \o " Image Material")
                     EXCEPT !.diffuseColor = "Black", !.emissiveTexture = t]]

\* new VideoTexture('Video - ' + name, src, ...).
NewVideoTexture(name, src) ==
    [class |-> "VideoTexture", name |-> "Video - " \o name, url |-> Undefined,
     buffer |-> Undefined, src |-> <<src>>, state |-> "loading"]

\* Lines 207-213 of addImage: `texture` is declared without a value and
\* its own type is what the condition tests.
NewImageTexture(src) ==
    LET texture == Undefined
    IN IF TypeOf(texture) = "string"
       THEN [class |-> "Texture", name |-> "", url |-> <<src.v>>,
             buffer |-> Undefined, src |-> Undefined, state |-> "loading"]
       ELSE [class |-> "Texture", name |-> "", url |-> Undefined,
             buffer |-> <<src>>, src |-> Undefined, state |-> "loading"]

\* What addVideo and addImage share: the root, the surface, the listeners
\* and the promise, fulfilled as the call returns (neither function awaits).
AttachSurface(op, kind, args, surface, texture) ==
    LET r == Len(roots) + 1
        c == Len(contents) + 1
        visibility == OrDefault(args.visibility, FALSE)
    IN /\ Len(promises) < MaxCalls
       /\ roots' = Append(roots, NewRoot(args.name))
       /\ contents' = Append(contents, surface.plane)
       /\ materials' = Append(materials, surface.material)
       /\ textures' = Append(textures, texture)
       /\ listeners' = listeners \o <<NFTDataListener(c, args.name, kind)>>
                                 \o _addRoot(r, args.name, visibility)
       /\ promises' = Append(promises,
              [op |-> op, name |-> args.name, args |-> <<args>>,
               state |-> "fulfilled", value |-> c, reason |-> "",
               data |-> Undefined])
       /\ hist' = Append(hist, [marker |-> args.name, last |-> "none",
                                            pose |-> Undefined])
       /\ seen' = Append(seen, [marker |-> args.name, msg |-> Undefined])
       /\ missed' = Append(missed, FALSE)
       /\ UNCHANGED starts

addVideo(args) ==
    AttachSurface("addVideo", "video", args,
        VideoSurface(args.name, Len(roots) + 1, Len(textures) + 1,
                     OrDefault(args.scale, DefaultPlaneScale)),
        NewVideoTexture(args.name, args.src))

addImage(args) ==
    AttachSurface("addImage", "image", args,
        ImageSurface(args.name, Len(roots) + 1, Len(textures) + 1,
                     OrDefault(args.scale, DefaultPlaneScale)),
        NewImageTexture(args.src))

\* The engine settles a texture's load after the attacher has returned; no
\* onError callback was passed and nothing awaits it.
TextureSettled(t, outcome) ==
    /\ textures[t].state = "loading"
    /\ textures' = [textures EXCEPT ![t].state = outcome]
    /\ UNCHANGED <<starts, roots, contents, materials, listeners, promises,
                   hist, seen, missed>>

\* ---------------------------------------------------------------- events

\* The tracker dispatches getMatrixGL_RH-<uuid>-<name>.
PoseUpdate(uuid, name, detail) ==
    LET sc == Deliver(listeners, EventName("getMatrixGL_RH", uuid, name),
                      [matrixGL_RH |-> detail].matrixGL_RH, scene)
    IN /\ roots' = sc[1]
       /\ contents' = sc[2]
       /\ hist' = [r \in DOMAIN hist |->
                     IF uuid = Uuid /\ hist[r].marker = name
                     THEN [hist[r] EXCEPT !.last = "pose", !.pose = <<detail>>]
                     ELSE hist[r]]
       /\ UNCHANGED <<starts, materials, textures, listeners, promises, seen,
                      missed>>

\* The tracker dispatches nftTrackingLost-<uuid>-<name>.
TrackingLost(uuid, name) ==
    LET sc == Deliver(listeners, EventName("nftTrackingLost", uuid, name),
                      Undefined, scene)
    IN /\ roots' = sc[1]
       /\ contents' = sc[2]
       /\ hist' = [r \in DOMAIN hist |->
                     IF uuid = Uuid /\ hist[r].marker = name
                     THEN [hist[r] EXCEPT !.last = "lost"] ELSE hist[r]]
       /\ UNCHANGED <<starts, materials, textures, listeners, promises, seen,
                      missed>>

\* The tracker dispatches getNFTData-<uuid>-<name>.
NFTData(uuid, name, msg) ==
    LET sc == Deliver(listeners, EventName("getNFTData", uuid, name), msg, scene)
    IN /\ roots' = sc[1]
       /\ contents' = sc[2]
       /\ seen' = [c \in DOMAIN seen |->
                     IF uuid = Uuid /\ seen[c].marker = name
                     THEN [seen[c] EXCEPT !.msg = <<msg>>] ELSE seen[c]]
       /\ missed' = [i \in DOMAIN missed |->
                       \/ missed[i]
                       \/ uuid = Uuid /\ Pending(i) /\ promises[i].name = name]
       /\ UNCHANGED <<starts, materials, textures, listeners, promises, hist>>

\* --------------------------------------------------------- specifications

Calls ==
    \/ \E args \in ModelArgs : addModel(args)
    \/ \E i \in DOMAIN promises : ImportRejected(i)
    \/ \E i \in DOMAIN promises, data \in ImportData : ImportResolved(i, data)
    \/ \E args \in VideoArgs : addVideo(args)
    \/ \E args \in ImageArgs : addImage(args)

PoseEvents ==
    \/ \E uuid \in Sessions, name \in Markers, detail \in Poses :
          PoseUpdate(uuid, name, detail)
    \/ \E uuid \in Sessions, name \in Markers : TrackingLost(uuid, name)

DimsEvents ==
    \E uuid \in Sessions, name \in Markers, msg \in Dims :
        NFTData(uuid, name, msg)

Loads ==
    \/ start
    \/ Render
    \/ \E t \in DOMAIN textures, outcome \in {"loaded", "failed"} :
          TextureSettled(t, outcome)

\* The whole program.
Next == Calls \/ PoseEvents \/ DimsEvents \/ Loads

Spec == Init /\ [][Next]_vars

\* The render loop and the texture loads write starts and textures only, and
\* no listener reads either: the attachers are checked with the tracker's
\* events (SpecTrack) and with the loads (SpecLoad).
TrackNext == Calls \/ PoseEvents \/ DimsEvents

SpecTrack == Init /\ [][TrackNext]_vars

LoadNext == Calls \/ Loads

SpecLoad == Init /\ [][LoadNext]_vars

\* Among the tracker's events, the pose-update and tracking-lost listeners
\* write roots only and the marker-dimensions listeners contents only, and
\* neither reads what the other writes: properties of the one kind of event
\* are checked with the attachers and that kind alone.
PoseNext == Calls \/ PoseEvents

SpecPose == Init /\ [][PoseNext]_vars

DimsNext == Calls \/ DimsEvents

SpecDims == Init /\ [][DimsNext]_vars

\* ------------------------------------------------------------ properties

Fulfilled(i) == promises[i].state = "fulfilled"

Rejected(i) == promises[i].state = "rejected"

\* The completed attachments to marker n.
Attachments(n) == {i \in DOMAIN promises : Fulfilled(i) /\ promises[i].name = n}

\* The anchors made for marker n.
Anchors(n) == {r \in DOMAIN roots : roots[r].name = n \o " Root"}

\* The content and the anchor of a completed attachment.
ContentOf(i) == contents[promises[i].value]

AnchorOf(i) == roots[ContentOf(i).parent]

\* The visibility option of a call, after the parameter default.
VisibilityOf(i) == OrDefault(promises[i].args[1].visibility, FALSE)

\* What the last events dispatched for attachment i's marker were.
HistOf(i) == hist[ContentOf(i).parent]

\* The rotation (half turns) and position each payload of Poses stands for,
\* worked out by hand; no payload is the pose of a root never moved.
ExpectedPose(pose) ==
    IF pose = Undefined
    THEN [rotation |-> [x |-> 0, y |-> 0, z |-> 0],
          position |-> [x |-> 0, y |-> 0, z |-> 0]]
    ELSE IF pose[1] = PoseZ
    THEN [rotation |-> [x |-> 0, y |-> 0, z |-> 1],
          position |-> [x |-> 5, y |-> 0, z |-> -10]]
    ELSE [rotation |-> [x |-> 0, y |-> 1, z |-> 1],
          position |-> [x |-> 0, y |-> -3, z |-> -20]]

HoldsPose(root, pose) ==
    /\ root.rotation = ExpectedPose(pose).rotation
    /\ root.position = ExpectedPose(pose).position

C2_LostKeepsPose ==
    \A i \in DOMAIN promises :
        Fulfilled(i) /\ ~VisibilityOf(i) =>
            /\ HistOf(i).last = "lost" =>
                  ~AnchorOf(i).enabled /\ HoldsPose(AnchorOf(i), HistOf(i).pose)
            /\ HistOf(i).last = "pose" =>
                  AnchorOf(i).enabled /\ HoldsPose(AnchorOf(i), HistOf(i).pose)

\* A visibility-false anchor that is disabled by a tracking-lost event and
\* keeps the pose of the update before it.
C2_Witness ==
    \E i \in DOMAIN promises :
        /\ Fulfilled(i) /\ ~VisibilityOf(i)
        /\ HistOf(i).last = "lost" /\ HistOf(i).pose = <<PoseX>>
        /\ ~AnchorOf(i).enabled
        /\ AnchorOf(i).position = [x |-> 0, y |-> -3, z |-> -20]

\* C3: after any events for an attachment's session and marker, its anchor is
\* enabled if the last pose-update or tracking-lost event was a pose update,
\* and enabled exactly when the visibility option is true if it was a
\* tracking-lost event.
C3_EnabledByLastEvent ==
    \A i \in DOMAIN promises :
        Fulfilled(i) =>
            /\ HistOf(i).last = "pose" => AnchorOf(i).enabled
            /\ HistOf(i).last = "lost" => (AnchorOf(i).enabled <=> VisibilityOf(i))

\* An anchor hidden by a tracking-lost event after a pose update and a
\* marker-dimensions event, beside one that the same kind of event left
\* visible.
C3_Witness ==
    \E i, j \in DOMAIN promises :
        /\ Fulfilled(i) /\ Fulfilled(j)
        /\ HistOf(i).last = "lost" /\ HistOf(i).pose # Undefined
        /\ seen[promises[i].value].msg # Undefined
        /\ ~VisibilityOf(i) /\ ~AnchorOf(i).enabled
        /\ HistOf(j).last = "lost" /\ VisibilityOf(j) /\ AnchorOf(j).enabled

\* The material and texture an attacher made for plane number c: addVideo
\* and addImage each add one of both, in the order of the planes.
PlaneIndex(c) == Cardinality({k \in 1..c : contents[k].kind # "model"})

IsPlaneCall(i) == promises[i].op \in {"addVideo", "addImage"}

\* C4: after a marker-dimensions event {width, height, dpi} the content of
\* each attacher has y = ((height / dpi) * 2.54 * 10) / 2 and
\* x = ((width / dpi) * 2.54 * 10) / 2; 800 x 600 at 300 dpi gives y = 25.40
\* and x = 33.87.
C4_CenteringOffsets ==
    \A i \in DOMAIN promises :
        Fulfilled(i) /\ seen[promises[i].value].msg # Undefined =>
            LET msg == seen[promises[i].value].msg[1]
                at == ContentOf(i).position
            IN /\ at.y = Offset(msg.height, msg.dpi)
               /\ at.x = Offset(msg.width, msg.dpi)
               /\ msg = [width |-> 800, height |-> 600, dpi |-> 300] =>
                     at.y = 2540 /\ at.x = 3387

\* The asset load of call i has failed.
LoadFailed(i) ==
    \/ promises[i].reason = "ImportError"
    \/ /\ IsPlaneCall(i)
       /\ textures[PlaneIndex(promises[i].value)].state = "failed"

C6_DefaultProcessNames ==
    \A i \in DOMAIN promises :
        /\ Fulfilled(i) /\ promises[i].op = "addModel"
        /\ promises[i].args[1].process = Undefined
        => /\ ContentOf(i).name = promises[i].name \o " Mesh"
           /\ ContentOf(i).id = promises[i].name \o " Mesh"
           /\ ContentOf(i).animation # Undefined =>
                 ContentOf(i).animation = <<promises[i].name \o " Animation">>

\* The imported data of call i holds no mesh with id __root__.
LacksRoot(i) ==
    /\ promises[i].data # Undefined
    /\ \A k \in DOMAIN promises[i].data[1].meshes :
          promises[i].data[1].meshes[k] # "__root__"

\* Every root, content and listener is that of a fulfilled call.
OnlyFulfilledCallsAttach ==
    LET done == {i \in DOMAIN promises : Fulfilled(i)}
    IN /\ Len(roots) = Cardinality(done)
       /\ Len(contents) = Cardinality(done)
       /\ Len(listeners) = 3 * Cardinality(done)
       /\ \A k \in DOMAIN listeners :
             \E i \in done :
                /\ listeners[k].target =
                      IF listeners[k].handler \in {"matrix", "lost"}
                      THEN ContentOf(i).parent ELSE promises[i].value
                /\ listeners[k].event \in
                      {EventName(type, Uuid, promises[i].name) :
                          type \in {"getMatrixGL_RH", "nftTrackingLost",
                                    "getNFTData"}}

C8_ImageSurfaceAsVideo ==
    \A i \in DOMAIN promises :
        Fulfilled(i) /\ promises[i].op = "addImage" =>
            LET p == PlaneIndex(promises[i].value)
                plane == ContentOf(i)
            IN /\ plane.material = [class |-> "StandardMaterial", ref |-> p]
               /\ materials[p].class = "StandardMaterial"
               /\ materials[p].emissiveTexture = p
               /\ materials[p].diffuseColor = "Black"
               /\ textures[p].class = "Texture"
               /\ plane.parent \in DOMAIN roots
               /\ plane.scaling = OrDefault(promises[i].args[1].scale,
                                            DefaultPlaneScale)
               /\ plane.rotationX = 1

\* C9: addImage makes the texture from the URL when src is a string and
\* from the element when src is an element.
C9_ImageSourceByType ==
    \A i \in DOMAIN promises :
        Fulfilled(i) /\ promises[i].op = "addImage" =>
            LET src == promises[i].args[1].src
                texture == textures[PlaneIndex(promises[i].value)]
            IN /\ src.type = "string" =>
                     texture.url = <<src.v>> /\ texture.buffer = Undefined
               /\ src.type = "element" =>
                     texture.url = Undefined /\ texture.buffer = <<src>>

\* C10: a pending addModel call has registered nothing (only fulfilled calls
\* have listeners); a model whose marker has had no marker-dimensions event
\* since the import resolved sits at its initial offset, whatever was
\* dispatched while the import was outstanding; addVideo and addImage
\* calls are never pending and have their three listeners.
C10_ListenersAfterImport ==
    /\ Len(listeners) = 3 * Cardinality({i \in DOMAIN promises : Fulfilled(i)})
    /\ \A i \in DOMAIN promises :
          /\ Pending(i) => promises[i].op = "addModel"
          /\ Fulfilled(i) /\ promises[i].op = "addModel"
                /\ seen[promises[i].value].msg = Undefined
             => ContentOf(i).position = [x |-> 0, y |-> 0]
          /\ IsPlaneCall(i) =>
                /\ Fulfilled(i)
                /\ \E k \in DOMAIN listeners :
                      /\ listeners[k].target = promises[i].value
                      /\ listeners[k].event =
                            EventName("getNFTData", Uuid, promises[i].name)
                /\ \A h \in {"matrix", "lost"} :
                      \E k \in DOMAIN listeners :
                         /\ listeners[k].handler = h
                         /\ listeners[k].target = ContentOf(i).parent

\* A model attached after a marker-dimensions event came and went during its
\* import: it is at its initial offset, while a video on the same marker
\* took the event.
C10_Witness ==
    \E i, j \in DOMAIN promises :
        /\ Fulfilled(i) /\ promises[i].op = "addModel" /\ missed[i]
        /\ seen[promises[i].value].msg = Undefined
        /\ ContentOf(i).position = [x |-> 0, y |-> 0]
        /\ Fulfilled(j) /\ promises[j].op = "addVideo"
        /\ promises[j].name = promises[i].name
        /\ ContentOf(j).position.x = 3387

=============================================================================
